---- MODULE Spec2Model ----
(***************************************************************************)
(* Transcript acquisition pipeline of the repository:                      *)
(*   - src/app/api/transcript/route.ts : GET handler, library strategy     *)
(*     with retry loop, direct-page fallback (fetchTranscriptDirectly,     *)
(*     parseTranscriptXml) and error classification;                       *)
(*   - src/unnamed/part_002 : GET handler backed by the external tool.     *)
(* One action per stretch of code between two suspension points (await).   *)
(* Times are integers in milliseconds.  Error messages, stacks and names   *)
(* are sequences of words, so that String.includes is a contiguous         *)
(* sub-sequence test and toLowerCase maps each word; identifiers and       *)
(* language codes are sequences of one-character strings.                  *)
(***************************************************************************)
EXTENDS Integers, Sequences, FiniteSets, TLC

VARIABLES
    handler,        \* which route serves the request: "library" | "ytdlp"
    videoId,        \* searchParams.get('videoId'): Null or a character sequence
    lang,           \* searchParams.get('lang') || 'en'
    pc,             \* position of the handler (the await it is suspended on)
    attempt,        \* loop variable of the retry loop
    lastError,      \* let lastError (route.ts:41)
    transcriptData, \* let transcriptData (route.ts:39)
    response,       \* the NextResponse returned, NoResponse while running
    pending,        \* the URL fetchTranscriptDirectly fetches (route.ts:402)
    subTrack,       \* const subTrack (part_002:77)
    aborted,        \* request.signal.aborted: the caller's cancellation signal
    \* ---- history (observation only, never read by the handler) ----
    delays,         \* every setTimeout suspension, in order
    failures,       \* per failed attempt: was it a blocking error
    libCalls,       \* invocations of YoutubeTranscript.fetchTranscript
    directCalls,    \* invocations of fetchTranscriptDirectly
    toolCalls,      \* invocations of youtubedl
    netCalls,       \* calls of fetch()
    lastRaised,     \* the last error raised in the call
    directResult,   \* what fetchTranscriptDirectly returned (Null: nothing yet)
    startedAfterAbort, \* an attempt or network call began after the signal fired
    abortedAt,      \* the kind of suspension in which the signal fired
    \* ---- a function of the repository applied on its own ----
    call            \* the last application: [fn, arg, result]

\* the state of a request being served
handlerVars == <<handler, videoId, lang, pc, attempt, lastError, transcriptData,
                 response, pending, subTrack, aborted, delays, failures, libCalls,
                 directCalls, toolCalls, netCalls, lastRaised, directResult,
                 startedAfterAbort, abortedAt>>

vars == <<handlerVars, call>>

Null == [null |-> TRUE]

----------------------------------------------------------------------------
(* JavaScript values *)

\* A JS number: NaN or a finite value (milliseconds for times).
Num(n) == [nan |-> FALSE, v |-> n]
NaN == [nan |-> TRUE, v |-> 0]

\* ToBoolean of a number: 0 and NaN are falsy.
Truthy(x) == ~x.nan /\ x.v # 0

\* a || b on numbers
OrElse(a, b) == IF Truthy(a) THEN a ELSE b

----------------------------------------------------------------------------
(* Strings as sequences *)

\* String.prototype.includes on sequences: needle occurs contiguously in hay.
Includes(hay, needle) ==
    \E i \in 0..(Len(hay) - Len(needle)) :
        SubSeq(hay, i + 1, i + Len(needle)) = needle

\* String.prototype.startsWith
StartsWith(s, prefix) ==
    Len(prefix) <= Len(s) /\ SubSeq(s, 1, Len(prefix)) = prefix

\* toLowerCase of one word of the message vocabulary
LowerWord(w) ==
    CASE w = "Too" -> "too"
      [] w = "Many" -> "many"
      [] w = "Requests" -> "requests"
      [] w = "Transcript" -> "transcript"
      [] w = "Forbidden" -> "forbidden"
      [] w = "Video" -> "video"
      [] w = "No" -> "no"
      [] w = "Fetch" -> "fetch"
      [] w = "Error" -> "error"
      [] w = "Failed" -> "failed"
      [] w = "YouTube" -> "youtube"
      [] w = "Invalid" -> "invalid"
      [] w = "Fallback" -> "fallback"
      [] w = "Could" -> "could"
      [] w = "Caption" -> "caption"
      [] w = "XML" -> "xml"
      [] w = "Type" -> "type"
      [] OTHER -> w

\* String.prototype.toLowerCase
ToLower(s) == [i \in 1..Len(s) |-> LowerWord(s[i])]

----------------------------------------------------------------------------
(* Errors *)

\* A thrown value as the handlers read it: error.message, error.stack,
\* error.name, error.status (0: the property is absent).
MkError(name, message, status) ==
    [name |-> name, message |-> message,
     stack |-> name \o message \o <<"at", "fetchTranscript">>,
     status |-> status]

\* new Error(msg)
NewError(message) == MkError(<<"Error">>, message, 0)

NoError == [name |-> <<>>, message |-> <<>>, stack |-> <<>>, status |-> -1]

\* Errors the library strategy may raise (youtube-transcript, HTTP layer).
LibErrors ==
    { MkError(<<"Error">>, <<"Too", "Many", "Requests">>, 429),
      MkError(<<"Error">>, <<"too", "many", "requests">>, 0),
      MkError(<<"Error">>, <<"Forbidden">>, 0),
      MkError(<<"Error">>, <<"U+1F6A8", "Transcript", "is", "disabled", "on", "this", "video">>, 0),
      MkError(<<"Error">>, <<"video", "not", "found">>, 0),
      MkError(<<"Fetch", "Error">>, <<"network", "timeout">>, 0),
      MkError(<<"Error">>, <<"socket", "hang", "up">>, 0) }

\* route.ts:114-126  const isBlockingError = ...
isBlockingError(error) ==
    LET errorMsg == ToLower(error.message)
        errorStack == ToLower(error.stack)
    IN  \/ Includes(errorMsg, <<"429">>)
        \/ Includes(errorMsg, <<"rate", "limit">>)
        \/ Includes(errorMsg, <<"too", "many", "requests">>)
        \/ Includes(errorMsg, <<"blocked">>)
        \/ Includes(errorMsg, <<"forbidden">>)
        \/ Includes(errorStack, <<"429">>)
        \/ Includes(errorStack, <<"too", "many", "requests">>)
        \/ error.status = 429
        \/ error.status = 403

\* route.ts:263-272  the condition of the 404 branch of the outer catch
isNoTranscriptError(error) ==
    LET errorMessage == error.message
        errorMessageLower == ToLower(error.message)
    IN  \/ Includes(errorMessageLower, <<"transcript", "is", "disabled">>)
        \/ Includes(errorMessageLower, <<"could", "not", "retrieve", "a", "transcript">>)
        \/ Includes(errorMessageLower, <<"no", "transcript", "found">>)
        \/ Includes(errorMessageLower, <<"transcript", "not", "available">>)
        \/ Includes(errorMessageLower, <<"unable", "to", "retrieve", "transcript">>)
        \/ Includes(errorMessageLower, <<"no", "transcripts", "are", "available">>)
        \/ Includes(errorMessage, <<"U+1F6A8">>)
        \/ Includes(errorMessage, <<"No", "transcripts", "are", "available">>)

\* route.ts:281-285  the condition of the 400 branch (case-sensitive)
isInvalidVideoError(error) ==
    LET errorMessage == error.message
    IN  \/ Includes(errorMessage, <<"invalid", "video", "id">>)
        \/ Includes(errorMessage, <<"video", "not", "found">>)
        \/ Includes(errorMessage, <<"video", "does", "not", "exist">>)

\* route.ts:293-303  const isRateLimitError = ... (message case-sensitive)
isRateLimitError(error) ==
    LET errorMessage == error.message
        errorName == ToLower(error.name)
    IN  \/ Includes(errorMessage, <<"rate", "limit">>)
        \/ Includes(errorMessage, <<"too", "many", "requests">>)
        \/ Includes(errorMessage, <<"429">>)
        \/ Includes(errorMessage, <<"403">>)
        \/ Includes(errorMessage, <<"forbidden">>)
        \/ Includes(errorMessage, <<"blocked">>)
        \/ Includes(errorMessage, <<"access", "denied">>)
        \/ Includes(errorName, <<"fetch">>)
        \/ error.status = 429
        \/ error.status = 403

\* a classification that has no generic branch
ClassifyStatusPartial(error) ==
    IF isNoTranscriptError(error) THEN 404
    ELSE IF isInvalidVideoError(error) THEN 400
    ELSE IF isRateLimitError(error) THEN 429
    ELSE 0

\* route.ts:247-333  the outer catch: the HTTP status it answers with
ClassifyStatus(error) ==
    IF isNoTranscriptError(error) THEN 404
    ELSE IF isInvalidVideoError(error) THEN 400
    ELSE IF isRateLimitError(error) THEN 429
    ELSE 500

----------------------------------------------------------------------------
(* Retry policy *)

Min(a, b) == IF a <= b THEN a ELSE b

RECURSIVE Pow2(_)
\* Math.pow(2, n) for n >= 0
Pow2(n) == IF n <= 0 THEN 1 ELSE 2 * Pow2(n - 1)

\* a retry limit that is one too high
maxRetriesOneMore == 5 + 1

\* route.ts:40
maxRetries == 5

\* route.ts:47  delay before every attempt after the first
preAttemptDelay(a) == Min(2000 * (a - 1), 10000)

\* route.ts:130  backoff after a blocking error
blockingDelay(a) == Min(3000 * Pow2(a - 1), 15000)

\* route.ts:138  backoff after any other error
otherDelay(a) == Min(1000 * Pow2(a - 1), 5000)

----------------------------------------------------------------------------
(* Character-level string functions (strings are sequences of characters) *)

IsSpace(c) == c \in {" ", "\n", "\t", "\r"}

IsDigit(c) == c \in {"0", "1", "2", "3", "4", "5", "6", "7", "8", "9"}

DigitVal(c) ==
    CASE c = "0" -> 0 [] c = "1" -> 1 [] c = "2" -> 2 [] c = "3" -> 3
      [] c = "4" -> 4 [] c = "5" -> 5 [] c = "6" -> 6 [] c = "7" -> 7
      [] c = "8" -> 8 [] c = "9" -> 9 [] OTHER -> 0

RECURSIVE TrimStart(_)
TrimStart(s) ==
    IF s # <<>> /\ IsSpace(Head(s)) THEN TrimStart(Tail(s)) ELSE s

RECURSIVE TrimEnd(_)
TrimEnd(s) ==
    IF s # <<>> /\ IsSpace(s[Len(s)]) THEN TrimEnd(SubSeq(s, 1, Len(s) - 1)) ELSE s

\* String.prototype.trim
Trim(s) == TrimEnd(TrimStart(s))

RECURSIVE ReplaceAll(_, _, _)
\* s.replace(/pat/g, rep) for a literal pattern: leftmost, non-overlapping
ReplaceAll(s, pat, rep) ==
    IF Len(s) < Len(pat) THEN s
    ELSE IF SubSeq(s, 1, Len(pat)) = pat
         THEN rep \o ReplaceAll(SubSeq(s, Len(pat) + 1, Len(s)), pat, rep)
         ELSE <<Head(s)>> \o ReplaceAll(Tail(s), pat, rep)

RECURSIVE IndexOf(_, _, _)
\* index >= from of the first occurrence of pat in s, 0 when there is none
IndexOf(s, pat, from) ==
    IF from + Len(pat) - 1 > Len(s) THEN 0
    ELSE IF SubSeq(s, from, from + Len(pat) - 1) = pat THEN from
         ELSE IndexOf(s, pat, from + 1)

RECURSIVE CountDigits(_, _)
\* number of consecutive digits of s starting at index i
CountDigits(s, i) ==
    IF i <= Len(s) /\ IsDigit(s[i]) THEN 1 + CountDigits(s, i + 1) ELSE 0

RECURSIVE DigitsValue(_, _, _)
\* the decimal value of the n digits of s that end at index i + n - 1
DigitsValue(s, i, n) ==
    IF n = 0 THEN 0
    ELSE 10 * DigitsValue(s, i, n - 1) + DigitVal(s[i + n - 1])

\* the first three fraction digits at s[i..], as thousandths
FracMillis(s, i, n) ==
    (IF n >= 1 THEN 100 * DigitVal(s[i]) ELSE 0)
    + (IF n >= 2 THEN 10 * DigitVal(s[i + 1]) ELSE 0)
    + (IF n >= 3 THEN DigitVal(s[i + 2]) ELSE 0)

\* parseFloat: leading white space, optional sign, digits, optional
\* fraction; NaN when no digit is read.  The value is kept in thousandths
\* (fraction digits beyond the third and exponents are not modelled).
ParseFloat(str) ==
    LET s == TrimStart(str)
        signed == s # <<>> /\ Head(s) \in {"+", "-"}
        neg == s # <<>> /\ Head(s) = "-"
        i == IF signed THEN 2 ELSE 1
        ni == CountDigits(s, i)
        dot == i + ni <= Len(s) /\ s[i + ni] = "."
        nf == IF dot THEN CountDigits(s, i + ni + 1) ELSE 0
        mag == 1000 * DigitsValue(s, i, ni) + FracMillis(s, i + ni + 1, nf)
    IN  IF ni = 0 /\ nf = 0 THEN NaN
        ELSE Num(IF neg THEN 0 - mag ELSE mag)

\* String.fromCharCode for the codes of the model's alphabet ("?" stands
\* for every other character)
FromCharCode(n) ==
    CASE n = 32 -> " " [] n = 34 -> "\"" [] n = 38 -> "&" [] n = 39 -> "'"
      [] n = 60 -> "<" [] n = 62 -> ">" [] n = 65 -> "A" [] n = 97 -> "a"
      [] OTHER -> "?"

----------------------------------------------------------------------------
(* parseTranscriptXml, route.ts:489-569 *)

CdataOpen == <<"<", "!", "[", "C", "D", "A", "T", "A", "[">>
CdataClose == <<"]", "]", ">">>
TextClose == <<"<", "/", "t", "e", "x", "t", ">">>

RECURSIVE RemoveCdata(_)
\* route.ts:534  text.replace(/<!\[CDATA\[([\s\S]*?)\]\]>/g, '$1')
RemoveCdata(s) ==
    IF s = <<>> THEN s
    ELSE LET close == IF StartsWith(s, CdataOpen)
                      THEN IndexOf(s, CdataClose, Len(CdataOpen) + 1) ELSE 0
         IN  IF close > 0
             THEN SubSeq(s, Len(CdataOpen) + 1, close - 1)
                      \o RemoveCdata(SubSeq(s, close + Len(CdataClose), Len(s)))
             ELSE <<Head(s)>> \o RemoveCdata(Tail(s))

RECURSIVE DecodeNumeric(_)
\* route.ts:544  .replace(/&#(\d+);/g, (_, code) => String.fromCharCode(parseInt(code, 10)))
DecodeNumeric(s) ==
    IF s = <<>> THEN s
    ELSE LET n == IF StartsWith(s, <<"&", "#">>) THEN CountDigits(s, 3) ELSE 0
             hit == n > 0 /\ 3 + n <= Len(s) /\ s[3 + n] = ";"
         IN  IF hit
             THEN <<FromCharCode(DigitsValue(s, 3, n))>>
                      \o DecodeNumeric(SubSeq(s, 4 + n, Len(s)))
             ELSE <<Head(s)>> \o DecodeNumeric(Tail(s))

\* route.ts:537-545  the chain of entity replacements, in the code's order,
\* then trim
DecodeEntities(text) ==
    LET t1 == ReplaceAll(text, <<"&", "a", "m", "p", ";">>, <<"&">>)
        t2 == ReplaceAll(t1, <<"&", "l", "t", ";">>, <<"<">>)
        t3 == ReplaceAll(t2, <<"&", "g", "t", ";">>, <<">">>)
        t4 == ReplaceAll(t3, <<"&", "q", "u", "o", "t", ";">>, <<"\"">>)
        t5 == ReplaceAll(t4, <<"&", "#", "3", "9", ";">>, <<"'">>)
        t6 == ReplaceAll(t5, <<"&", "n", "b", "s", "p", ";">>, <<" ">>)
    IN  Trim(DecodeNumeric(t6))

\* The document is a sequence of <text> elements
\*   [form, start, dur, body]
\* form "plain": <text start=".." dur="..">body</text>
\* form "cdata": <text start=".." dur=".."><![CDATA[body]]></text>
\* form "loose": other attributes precede start or stand between start and dur
\* The three regular expressions are modelled by which elements they match
\* and what their third group captures.

\* route.ts:502  pattern1
Pattern1Matches(e) ==
    /\ e.form = "plain" /\ e.start # <<>> /\ e.dur # <<>>
    /\ ~Includes(e.body, <<"<">>)

\* route.ts:510  pattern2
Pattern2Matches(e) ==
    e.form = "cdata" /\ e.start # <<>> /\ e.dur # <<>>

\* route.ts:518  pattern3
Pattern3Matches(e) ==
    e.start # <<>> /\ e.dur # <<>>

\* group 3 of pattern3: everything up to the first </text>
Pattern3Capture(e) ==
    LET raw == IF e.form = "cdata" THEN CdataOpen \o e.body \o CdataClose ELSE e.body
        stop == IndexOf(raw, TextClose, 1)
    IN  IF stop > 0 THEN SubSeq(raw, 1, stop - 1) ELSE raw

\* the sub-sequence of the elements of doc that satisfy Test
RECURSIVE SelectElems(_, _)
SelectElems(doc, pat) ==
    IF doc = <<>> THEN <<>>
    ELSE LET e == Head(doc)
             hit == CASE pat = 1 -> Pattern1Matches(e)
                      [] pat = 2 -> Pattern2Matches(e)
                      [] OTHER -> Pattern3Matches(e)
             m == [start |-> e.start, dur |-> e.dur,
                   text |-> IF pat = 3 THEN Pattern3Capture(e) ELSE e.body]
         IN  (IF hit THEN <<m>> ELSE <<>>) \o SelectElems(Tail(doc), pat)

\* a search that starts with the loose pattern
TextMatchesLooseFirst(doc) ==
    IF SelectElems(doc, 3) # <<>> THEN SelectElems(doc, 3)
    ELSE IF SelectElems(doc, 2) # <<>> THEN SelectElems(doc, 2)
    ELSE SelectElems(doc, 1)

\* route.ts:498-522  textMatches: the first pattern with at least one match
TextMatches(doc) ==
    IF SelectElems(doc, 1) # <<>> THEN SelectElems(doc, 1)
    ELSE IF SelectElems(doc, 2) # <<>> THEN SelectElems(doc, 2)
    ELSE SelectElems(doc, 3)

RECURSIVE SegmentsOfMatches(_)
\* route.ts:526-554  one segment per match whose decoded text is not empty
SegmentsOfMatches(ms) ==
    IF ms = <<>> THEN <<>>
    ELSE LET match == Head(ms)
             start == ParseFloat(match.start)
             duration == ParseFloat(match.dur)
             text == DecodeEntities(RemoveCdata(match.text))
         IN  (IF text # <<>>
              THEN <<[text |-> text, duration |-> duration, offset |-> start]>>
              ELSE <<>>) \o SegmentsOfMatches(Tail(ms))

\* route.ts:489-569
parseTranscriptXml(xml) == SegmentsOfMatches(TextMatches(xml))

----------------------------------------------------------------------------
(* Requests and upstream answers *)

\* bounds of the inputs
MaxSegs == 2
MaxCues == 2

\* n copies of the character c
Rep(n, c) == [i \in 1..n |-> c]

\* the identifier alphabet [a-zA-Z0-9_-] (part_000:18), over the characters
\* that occur in the model's requests
IsIdChar(c) == c \in {"a", "Z", "9", "_", "-"}

\* an optional string parameter: searchParams.get returns null when absent
Param(str) == [present |-> TRUE, s |-> str]
NoParam == [present |-> FALSE, s |-> <<>>]

\* !p for a string-or-null: null and '' are falsy
Falsy(p) == ~p.present \/ p.s = <<>>

VideoIds ==
    { NoParam, Param(<<>>),
      Param(Rep(10, "a")), Param(Rep(12, "a")),
      Param(Rep(5, "Z") \o <<"_", "-", "9", "a", "a", "a">>),
      Param(Rep(10, "a") \o <<"!">>) }

En == <<"e", "n">>
EnUS == <<"e", "n", "-", "U", "S">>
Th == <<"t", "h">>

LangParams == { NoParam, Param(En), Param(Th) }

\* a segment as the strategies hand it over
Seg(text, offset, duration) ==
    [text |-> text, duration |-> duration, offset |-> offset]

\* what YoutubeTranscript.fetchTranscript may resolve to: an array of
\* 0..MaxSegs items, or something that is not an array
LibArray(n) == [i \in 1..n |-> Seg(<<"l", "i", "b">>, Num(1000 * (i - 1)), Num(1000))]

Undefined == [defined |-> FALSE, array |-> FALSE, typeof |-> "undefined", items |-> <<>>]
ArrayValue(items) == [defined |-> TRUE, array |-> TRUE, typeof |-> "object", items |-> items]
ObjectValue == [defined |-> TRUE, array |-> FALSE, typeof |-> "object", items |-> <<>>]

LibResults == { ArrayValue(LibArray(n)) : n \in 0..MaxSegs } \cup { Undefined, ObjectValue }

----------------------------------------------------------------------------
(* Responses *)

NoResponse == [status |-> 0, error |-> "", videoId |-> NoParam,
               transcript |-> <<>>, totalItems |-> 0]

\* NextResponse.json<TranscriptError>({ error }, { status })
ErrorResponse(status, error) ==
    [status |-> status, error |-> error, videoId |-> NoParam,
     transcript |-> <<>>, totalItems |-> 0]

\* the fields duration and offset taken from each other's source
TransformItemSwapped(item) ==
    [text |-> item.text,
     duration |-> OrElse(item.offset, Num(0)),
     offset |-> OrElse(item.duration, Num(0))]

\* route.ts:226-231  one item of transcriptData.map(...)
TransformItem(item) ==
    [text |-> item.text,
     duration |-> OrElse(item.duration, Num(0)),
     offset |-> OrElse(item.offset, Num(0))]

\* a success response that counts up to the index of the last item
SuccessResponseLastIndex(id, items) ==
    LET transcript == [i \in 1..Len(items) |-> TransformItem(items[i])]
    IN  [status |-> 200, error |-> "", videoId |-> id,
         transcript |-> transcript, totalItems |-> Len(transcript) - 1]

\* route.ts:214-246  the success response
SuccessResponse(id, items) ==
    LET transcript == [i \in 1..Len(items) |-> TransformItem(items[i])]
    IN  [status |-> 200, error |-> "", videoId |-> id,
         transcript |-> transcript, totalItems |-> Len(transcript)]

\* route.ts:247-333  the response of the outer catch
CatchResponse(error) ==
    LET status == ClassifyStatus(error)
    IN  ErrorResponse(status,
            CASE status = 404 -> "No transcript available for this video in the selected language"
              [] status = 400 -> "Invalid YouTube video ID or video not found"
              [] status = 429 -> "YouTube is rate limiting requests"
              [] OTHER -> "An error occurred while fetching the transcript")

\* route.ts:204-209  the response of the fallback's catch
FallbackFailedResponse ==
    ErrorResponse(404, "No transcript available for this video in language")

----------------------------------------------------------------------------
(* fetchTranscriptDirectly, route.ts:345-486 *)

NoUrl == [present |-> FALSE, parses |-> FALSE, fmt |-> <<>>]
\* a baseUrl: whether new URL() accepts it, and the value of its fmt
\* parameter (<<>>: it has none)
Url(parses, fmt) == [present |-> TRUE, parses |-> parses, fmt |-> fmt]

Track(languageCode, baseUrl) == [languageCode |-> languageCode, baseUrl |-> baseUrl]

Fmt3 == <<"3">>
FmtJson3 == <<"j", "s", "o", "n", "3">>

TrackLists ==
    { <<>>,
      <<Track(En, Url(TRUE, <<>>))>>,
      <<Track(Th, Url(TRUE, <<>>)), Track(En, Url(TRUE, FmtJson3))>>,
      <<Track(EnUS, Url(TRUE, <<>>)), Track(Th, Url(FALSE, <<>>))>>,
      <<Track(En, NoUrl)>> }

FetchFailed == MkError(<<"Type", "Error">>, <<"fetch", "failed">>, 0)

\* what fetch(watchUrl) and the extraction of captionTracks may give
PageResult(kind, status, json, tracks) ==
    [kind |-> kind, status |-> status, json |-> json, tracks |-> tracks]

PageResults ==
    { PageResult("throw", 0, "", <<>>),
      PageResult("status", 429, "", <<>>),
      PageResult("status", 404, "", <<>>),
      PageResult("html", 200, "nomatch", <<>>),
      PageResult("html", 200, "invalid", <<>>) }
    \cup { PageResult("html", 200, "ok", t) : t \in TrackLists }

\* the status code as it is printed into a message
StatusWord(status) ==
    CASE status = 429 -> "429" [] status = 403 -> "403" [] status = 404 -> "404"
      [] status = 500 -> "500" [] OTHER -> "status"

RECURSIVE FindTrack(_, _)
\* route.ts:392-394  captionTracks.find(track => track.languageCode === lang)
FindTrack(tracks, l) ==
    IF tracks = <<>> THEN [found |-> FALSE, track |-> Track(<<>>, NoUrl)]
    ELSE IF Head(tracks).languageCode = l THEN [found |-> TRUE, track |-> Head(tracks)]
    ELSE FindTrack(Tail(tracks), l)

\* route.ts:414-423  set fmt=3 unless the URL has an fmt parameter already;
\* a URL that new URL() rejects is used as it is
EnsureFmt(baseUrl) ==
    IF baseUrl.parses /\ baseUrl.fmt = <<>> THEN Url(TRUE, Fmt3) ELSE baseUrl

Thrown(error) == [ok |-> FALSE, error |-> error, url |-> NoUrl, items |-> <<>>]
Value(url, items) == [ok |-> TRUE, error |-> NoError, url |-> url, items |-> items]

\* route.ts:354-423  from the answer of fetch(watchUrl) to the URL to fetch
PageOutcome(r, l) ==
    IF r.kind = "throw" THEN Thrown(FetchFailed)
    ELSE IF r.kind = "status"
    THEN Thrown(NewError(<<"Failed", "to", "fetch", "YouTube", "page:", StatusWord(r.status)>>))
    ELSE IF r.json = "nomatch"
    THEN Thrown(NewError(<<"Could", "not", "find", "captionTracks", "in", "YouTube", "page">>))
    ELSE IF r.json = "invalid"
    THEN Thrown(MkError(<<"Syntax", "Error">>, <<"Unexpected", "token">>, 0))
    ELSE LET m == FindTrack(r.tracks, l)
         IN  IF ~m.found
             THEN Thrown(NewError(<<"No", "caption", "track", "found", "for", "language">>))
             ELSE IF ~m.track.baseUrl.present
             THEN Thrown(NewError(<<"Caption", "track", "has", "no", "baseUrl">>))
             ELSE Value(EnsureFmt(m.track.baseUrl), <<>>)

\* documents the transcript URL may answer with
Cue(form, start, dur, body) == [form |-> form, start |-> start, dur |-> dur, body |-> body]

\* the decimal digit of n, 0 <= n <= 9
DigitChar(n) ==
    CASE n = 0 -> "0" [] n = 1 -> "1" [] n = 2 -> "2" [] n = 3 -> "3"
      [] n = 4 -> "4" [] n = 5 -> "5" [] n = 6 -> "6" [] n = 7 -> "7"
      [] n = 8 -> "8" [] OTHER -> "9"

\* n cues of one form, cue i starting at second i - 1 and lasting 1.5 s
XmlDoc(n, form) ==
    [i \in 1..n |-> Cue(form, <<DigitChar(i - 1)>>, <<"1", ".", "5">>, <<"h", "i">>)]

Amp == <<"&", "a", "m", "p", ";">>
Nbsp == <<"&", "n", "b", "s", "p", ";">>

XmlDocs ==
    { XmlDoc(n, form) : n \in 0..MaxCues, form \in {"plain", "cdata", "loose"} }
    \cup { <<Cue("plain", <<"a", "b", "c">>, <<"x">>, <<"h", "i">>)>>,
           <<Cue("plain", <<"0">>, <<"2">>, Nbsp), Cue("plain", <<"2">>, <<"0">>, <<" ">>)>>,
           <<Cue("plain", <<"0">>, <<"2">>, <<"a", " ">> \o Amp \o <<" ", "b">>),
             Cue("cdata", <<"2">>, <<"1">>, <<"c">>)>> }

\* what fetch(baseUrl) may give: a rejection, a status that is not ok, a
\* body that is blank, or a document
TrackResult(kind, status, doc) == [kind |-> kind, status |-> status, doc |-> doc]

TrackResults ==
    { TrackResult("throw", 0, <<>>),
      TrackResult("status", 403, <<>>),
      TrackResult("status", 404, <<>>),
      TrackResult("blank", 200, <<>>) }
    \cup { TrackResult("xml", 200, d) : d \in XmlDocs }

\* route.ts:430-481  from the answer of fetch(baseUrl) to the segments
TrackOutcome(r) ==
    IF r.kind = "throw" THEN Thrown(FetchFailed)
    ELSE IF r.kind = "status"
    THEN Thrown(NewError(<<"Failed", "to", "fetch", "transcript:", StatusWord(r.status)>>))
    ELSE IF r.kind = "blank"
    THEN Thrown(NewError(<<"Transcript", "XML", "response", "is", "empty">>))
    ELSE Value(NoUrl, parseTranscriptXml(r.doc))

\* route.ts:186
FallbackEmptyError == NewError(<<"Fallback", "method", "also", "returned", "empty", "result">>)

\* route.ts:103
InvalidFormatError(typeof) ==
    NewError(<<"Invalid", "transcript", "data", "format:", typeof>>)

\* route.ts:151
RetriesFailedError == NewError(<<"Failed", "to", "fetch", "transcript", "after", "retries">>)

----------------------------------------------------------------------------
(* Arithmetic on JS numbers (thousandths; NaN propagates) *)

Add(a, b) == IF a.nan \/ b.nan THEN NaN ELSE Num(a.v + b.v)
Sub(a, b) == IF a.nan \/ b.nan THEN NaN ELSE Num(a.v - b.v)
\* x * k for an integer k
Times(a, k) == IF a.nan THEN NaN ELSE Num(a.v * k)
\* x / 1000, rounded towards zero at the fourth decimal
Div1000(a) ==
    IF a.nan THEN NaN
    ELSE Num(IF a.v >= 0 THEN a.v \div 1000 ELSE 0 - ((0 - a.v) \div 1000))
\* the integer n as a JS number
JsInt(n) == Num(1000 * n)

----------------------------------------------------------------------------
(* The parsers of part_002 *)

RECURSIVE Split(_, _)
\* String.prototype.split for a separator that is not empty
Split(s, sep) ==
    LET i == IndexOf(s, sep, 1)
    IN  IF i = 0 THEN <<s>>
        ELSE <<SubSeq(s, 1, i - 1)>> \o Split(SubSeq(s, i + Len(sep), Len(s)), sep)

RECURSIVE Join(_)
\* Array.prototype.join('')
Join(strs) == IF strs = <<>> THEN <<>> ELSE Head(strs) \o Join(Tail(strs))

\* a reading that takes two fields for hours:minutes
parseVttTimeHoursFirst(timeStr) ==
    IF Falsy(timeStr) THEN Num(0)
    ELSE LET parts == Split(Trim(timeStr.s), <<":">>)
         IN  IF Len(parts) = 3
             THEN Add(Add(Add(Num(0), Times(ParseFloat(parts[1]), 3600)),
                          Times(ParseFloat(parts[2]), 60)),
                      ParseFloat(parts[3]))
             ELSE IF Len(parts) = 2
             THEN Add(Add(Num(0), Times(ParseFloat(parts[1]), 3600)),
                      Times(ParseFloat(parts[2]), 60))
             ELSE Num(0)

\* part_002:160-173
parseVttTime(timeStr) ==
    IF Falsy(timeStr) THEN Num(0)
    ELSE LET parts == Split(Trim(timeStr.s), <<":">>)
         IN  IF Len(parts) = 3
             THEN Add(Add(Add(Num(0), Times(ParseFloat(parts[1]), 3600)),
                          Times(ParseFloat(parts[2]), 60)),
                      ParseFloat(parts[3]))
             ELSE IF Len(parts) = 2
             THEN Add(Add(Num(0), Times(ParseFloat(parts[1]), 60)), ParseFloat(parts[2]))
             ELSE Num(0)

Arrow == <<"-", "-", ">">>
SpacedArrow == <<" ", "-", "-", ">", " ">>
NoteWord == <<"N", "O", "T", "E">>
WebvttWord == <<"W", "E", "B", "V", "T", "T">>

\* part_002:117-122  the segment a cue line opens
VttCue(line) ==
    LET parts == Split(line, SpacedArrow)
        start == Param(parts[1])
        end == IF Len(parts) >= 2 THEN Param(parts[2]) ELSE NoParam
    IN  [offset |-> parseVttTime(start),
         duration |-> Sub(parseVttTime(end), parseVttTime(start)),
         text |-> <<>>]

RECURSIVE VttLoop(_, _)
\* part_002:115-127  the loop over the lines; currentSegment is the last
\* element of transcript
VttLoop(lines, transcript) ==
    IF lines = <<>> THEN transcript
    ELSE LET line == Head(lines)
             n == Len(transcript)
         IN  IF Includes(line, Arrow)
             THEN VttLoop(Tail(lines), Append(transcript, VttCue(line)))
             ELSE IF /\ n > 0
                     /\ Trim(line) # <<>>
                     /\ ~StartsWith(line, NoteWord)
                     /\ ~StartsWith(line, WebvttWord)
             THEN VttLoop(Tail(lines),
                      [transcript EXCEPT ![n].text =
                          @ \o (IF @ # <<>> THEN <<" ">> ELSE <<>>) \o Trim(line)])
             ELSE VttLoop(Tail(lines), transcript)

\* part_002:110-127
parseVtt(text) == VttLoop(Split(text, <<"\n">>), <<>>)

\* an event of a json3 document
Event(hasSegs, segs, tStartMs, dDurationMs) ==
    [hasSegs |-> hasSegs, segs |-> segs, tStartMs |-> tStartMs, dDurationMs |-> dDurationMs]

RECURSIVE EventsToSegmentsUnfiltered(_)
\* the map without the filter: an event with an empty list is kept
EventsToSegmentsUnfiltered(events) ==
    IF events = <<>> THEN <<>>
    ELSE LET e == Head(events)
         IN  (IF e.hasSegs
              THEN <<[text |-> Join(e.segs),
                      duration |-> OrElse(Div1000(e.dDurationMs), Num(0)),
                      offset |-> OrElse(Div1000(e.tStartMs), Num(0))]>>
              ELSE <<>>) \o EventsToSegmentsUnfiltered(Tail(events))

RECURSIVE EventsToSegments(_)
\* part_002:98-104  filter, then map
EventsToSegments(events) ==
    IF events = <<>> THEN <<>>
    ELSE LET e == Head(events)
         IN  (IF e.hasSegs /\ Len(e.segs) > 0
              THEN <<[text |-> Join(e.segs),
                      duration |-> OrElse(Div1000(e.dDurationMs), Num(0)),
                      offset |-> OrElse(Div1000(e.tStartMs), Num(0))]>>
              ELSE <<>>) \o EventsToSegments(Tail(events))

\* part_002:95-105  json: [hasEvents, events]
parseJson3(json) == IF json.hasEvents THEN EventsToSegments(json.events) ELSE <<>>

----------------------------------------------------------------------------
(* formatTime (part_000:47-54) and formatAsSRT (src/lib/format.ts:14-22) *)

\* a % b of JavaScript on integers: the sign of the dividend
JsRem(a, b) == IF a >= 0 THEN a % b ELSE 0 - ((0 - a) % b)

RECURSIVE NatToStr(_)
\* the decimal digits of a natural number
NatToStr(n) ==
    IF n < 10 THEN <<DigitChar(n)>>
    ELSE NatToStr(n \div 10) \o <<DigitChar(n % 10)>>

\* String(n) of an integer
ToStr(n) == IF n < 0 THEN <<"-">> \o NatToStr(0 - n) ELSE NatToStr(n)

\* String.prototype.padStart(len, c)
PadStart(s, len, c) == IF Len(s) >= len THEN s ELSE Rep(len - Len(s), c) \o s

NaNStr == <<"N", "a", "N">>

\* a rendering whose minutes are not reduced to the hour
formatTimeTotalMinutes(seconds) ==
    IF seconds.nan
    THEN NaNStr \o <<":">> \o NaNStr \o <<":">> \o NaNStr \o <<",">> \o NaNStr
    ELSE LET hours == seconds.v \div 3600000
             minutes == seconds.v \div 60000
             secs == JsRem(seconds.v, 60000) \div 1000
             milliseconds == JsRem(seconds.v, 1000)
         IN  PadStart(ToStr(hours), 2, "0") \o <<":">>
                 \o PadStart(ToStr(minutes), 2, "0") \o <<":">>
                 \o PadStart(ToStr(secs), 2, "0") \o <<",">>
                 \o PadStart(ToStr(milliseconds), 3, "0")

\* part_000:47-54.  seconds is a JS number in thousandths, so the four
\* fields are integers: Math.floor is the floor division, % is JsRem.
formatTime(seconds) ==
    IF seconds.nan
    THEN NaNStr \o <<":">> \o NaNStr \o <<":">> \o NaNStr \o <<",">> \o NaNStr
    ELSE LET hours == seconds.v \div 3600000
             minutes == JsRem(seconds.v, 3600000) \div 60000
             secs == JsRem(seconds.v, 60000) \div 1000
             milliseconds == JsRem(seconds.v, 1000)
         IN  PadStart(ToStr(hours), 2, "0") \o <<":">>
                 \o PadStart(ToStr(minutes), 2, "0") \o <<":">>
                 \o PadStart(ToStr(secs), 2, "0") \o <<",">>
                 \o PadStart(ToStr(milliseconds), 3, "0")

RECURSIVE JoinWith(_, _)
\* Array.prototype.join(sep)
JoinWith(strs, sep) ==
    IF strs = <<>> THEN <<>>
    ELSE IF Len(strs) = 1 THEN Head(strs)
    ELSE Head(strs) \o sep \o JoinWith(Tail(strs), sep)

\* format.ts:16-20  the block of one item
SrtBlock(item, index) ==
    LET start == formatTime(item.offset)
        end == formatTime(Add(item.offset, item.duration))
    IN  ToStr(index + 1) \o <<"\n">> \o start \o SpacedArrow \o end \o <<"\n">>
            \o item.text \o <<"\n">>

\* format.ts:14-22
formatAsSRT(transcript) ==
    JoinWith([i \in 1..Len(transcript) |-> SrtBlock(transcript[i], i - 1)], <<"\n">>)

----------------------------------------------------------------------------
(* What the external tool and the subtitle URL may answer *)

SubTrack(ext, hasUrl) == [ext |-> ext, url |-> hasUrl]
NoSubTrack == [ext |-> "", url |-> FALSE]

\* one key of output.subtitles or output.automatic_captions
LangEntry(l, tracks) == [lang |-> l, tracks |-> tracks]

EnGB == <<"e", "n", "-", "G", "B">>

ToolOutput(subtitles, automatic) ==
    [subtitles |-> subtitles, automatic_captions |-> automatic]

ToolOutputs ==
    { ToolOutput(<<>>, <<>>),
      ToolOutput(<<LangEntry(En, <<SubTrack("vtt", TRUE), SubTrack("json3", TRUE)>>)>>, <<>>),
      ToolOutput(<<>>, <<LangEntry(EnUS, <<SubTrack("vtt", TRUE)>>),
                         LangEntry(En, <<SubTrack("json3", TRUE)>>)>>),
      ToolOutput(<<LangEntry(EnUS, <<SubTrack("vtt", TRUE)>>)>>,
                 <<LangEntry(EnGB, <<SubTrack("json3", TRUE)>>)>>),
      ToolOutput(<<LangEntry(En, <<>>)>>, <<>>),
      ToolOutput(<<LangEntry(En, <<SubTrack("ttml", TRUE)>>)>>, <<>>),
      ToolOutput(<<LangEntry(Th, <<SubTrack("json3", FALSE)>>)>>, <<>>) }

ToolFailed == MkError(<<"Error">>, <<"yt-dlp", "exited", "with", "code">>, 0)

Hello == <<"h", "e", "l", "l", "o">>
VttSample == <<"W", "E", "B", "V", "T", "T", "\n", "\n", "0", "0", ":", "0", "1", ".", "0", "0", "0", " ", "-", "-", ">", " ", "0", "0", ":", "0", "3", ".", "5", "0", "0", "\n", "h", "e", "l", "l", "o", "\n", "w", "o", "r", "l", "d", "\n">>
VttUnspaced == <<"0", "0", ":", "0", "1", "-", "-", ">", "0", "0", ":", "0", "2", "\n", "h", "i">>

TtmlSample == <<"<", "p", " ", "b", "e", "g", "i", "n", "=", "\"", "1", "s", "\"", ">", "h", "i", "<", "/", "p", ">", "\n">>
\* json3 documents with 0..MaxSegs events, event i at i - 1 seconds
Json3Doc(n) ==
    [hasEvents |-> TRUE,
     events |-> [i \in 1..n |-> Event(TRUE, <<Hello, <<"!">>>>, JsInt(1000 * (i - 1)), JsInt(1500))]]

SubResult(kind, status, json, text) ==
    [kind |-> kind, status |-> status, json |-> json, text |-> text]

NoJson == [hasEvents |-> FALSE, events |-> <<>>]

SubResults ==
    { SubResult("throw", 0, NoJson, <<>>),
      SubResult("status", 404, NoJson, <<>>),
      SubResult("json", 200, NoJson, <<>>),
      SubResult("json", 200,
                [hasEvents |-> TRUE,
                 events |-> <<Event(FALSE, <<>>, JsInt(0), JsInt(10)),
                              Event(TRUE, <<>>, JsInt(0), JsInt(10)),
                              Event(TRUE, <<Hello>>, JsInt(2000), NaN)>>], <<>>),
      SubResult("json", 200,
                [hasEvents |-> TRUE,
                 events |-> <<Event(TRUE, <<Hello>>, JsInt(2000), JsInt(1500)),
                              Event(TRUE, <<<<" ">>>>, JsInt(1000), JsInt(500))>>], <<>>),
      SubResult("text", 200, NoJson, VttSample),
      SubResult("text", 200, NoJson, VttUnspaced),
      SubResult("text", 200, NoJson, TtmlSample) }
    \cup { SubResult("json", 200, Json3Doc(n), <<>>) : n \in 1..MaxSegs }

----------------------------------------------------------------------------
(* GET of route.ts: library strategy with retries, direct-page fallback *)

\* route.ts:12-26  the two validation checks: which one rejects, or "ok"
ValidateVideoId(id) ==
    IF Falsy(id) THEN "required"
    ELSE IF Len(id.s) # 11 THEN "invalid"
    ELSE "ok"

\* the awaits a handler can be suspended on
Suspended == {"libFetch", "backoff", "preDelay", "pageFetch", "trackFetch",
              "toolCall", "subFetch"}

NoPending == NoUrl

\* no function has been applied on its own
NoCall == [fn |-> "none", arg |-> <<>>, result |-> <<>>]

Init ==
    /\ handler \in {"library", "ytdlp"}
    /\ videoId \in VideoIds
    /\ \E p \in LangParams : lang = IF Falsy(p) THEN En ELSE p.s
    /\ pc = "start"
    /\ attempt = 0
    /\ lastError = NoError
    /\ transcriptData = Undefined
    /\ response = NoResponse
    /\ pending = NoPending
    /\ subTrack = NoSubTrack
    /\ aborted = FALSE
    /\ delays = <<>>
    /\ failures = <<>>
    /\ libCalls = 0
    /\ directCalls = 0
    /\ toolCalls = 0
    /\ netCalls = 0
    /\ lastRaised = NoError
    /\ directResult = [returned |-> FALSE, items |-> <<>>]
    /\ startedAfterAbort = FALSE
    /\ abortedAt = ""
    /\ call = NoCall

\* a retry decision that asks for no suspension
RetryDecisionNoWait(error, a) == [retry |-> a < maxRetries, delay |-> 0]

\* a catch that waits after every failure, the last one included
RetryDecisionAlwaysWait(error, a) ==
    IF isBlockingError(error)
    THEN [retry |-> TRUE, delay |-> blockingDelay(a)]
    ELSE [retry |-> TRUE, delay |-> otherDelay(a)]

\* route.ts:128-146  what the catch of the retry loop decides after the
\* failure of attempt a: wait and continue, or rethrow
RetryDecision(error, a) ==
    IF isBlockingError(error) /\ a < maxRetries
    THEN [retry |-> TRUE, delay |-> blockingDelay(a)]
    ELSE IF ~isBlockingError(error) /\ a < maxRetries
    THEN [retry |-> TRUE, delay |-> otherDelay(a)]
    ELSE [retry |-> FALSE, delay |-> 0]

\* an empty array answered as a success, without the fallback
AfterLoopEmptyIsSuccess(data, lastErr, id) ==
    IF data.defined /\ data.array
    THEN [next |-> "done", response |-> SuccessResponse(id, data.items), raised |-> NoError]
    ELSE [next |-> "done", raised |-> NoError,
          response |-> ErrorResponse(500, "Invalid transcript data format received from YouTube")]

\* route.ts:150-246  after the retry loop: the error, the response, or the
\* start of the fallback (next = "pageFetch")
AfterLoop(data, lastErr, id) ==
    IF ~data.defined
    THEN LET e == IF lastErr # NoError THEN lastErr ELSE RetriesFailedError
         IN  [next |-> "done", response |-> CatchResponse(e), raised |-> e]
    ELSE IF ~data.array
    THEN [next |-> "done", raised |-> NoError,
          response |-> ErrorResponse(500, "Invalid transcript data format received from YouTube")]
    ELSE IF Len(data.items) = 0
    THEN [next |-> "pageFetch", response |-> NoResponse, raised |-> NoError]
    ELSE [next |-> "done", response |-> SuccessResponse(id, data.items), raised |-> NoError]

\* the signal of the request fires; no handler reads it
Abort ==
    /\ UNCHANGED call
    /\ pc \in Suspended
    /\ ~aborted
    /\ aborted' = TRUE
    /\ abortedAt' = IF pc \in {"backoff", "preDelay"} THEN "delay" ELSE "network"
    /\ UNCHANGED <<handler, videoId, lang, pc, attempt, lastError, transcriptData,
                   response, pending, subTrack, delays, failures, libCalls, directCalls,
                   toolCalls, netCalls, lastRaised, directResult, startedAfterAbort>>

\* route.ts:6-58  entry, validation, first attempt of the library strategy
Start ==
    /\ UNCHANGED call
    /\ handler = "library"
    /\ pc = "start"
    /\ LET v == ValidateVideoId(videoId)
       IN  IF v = "required"
           THEN /\ response' = ErrorResponse(400, "Video ID is required")
                /\ pc' = "done"
                /\ UNCHANGED <<attempt, libCalls>>
           ELSE IF v = "invalid"
           THEN /\ response' = ErrorResponse(400, "Invalid YouTube video ID")
                /\ pc' = "done"
                /\ UNCHANGED <<attempt, libCalls>>
           ELSE /\ attempt' = 1
                /\ libCalls' = libCalls + 1
                /\ pc' = "libFetch"
                /\ UNCHANGED response
    /\ UNCHANGED <<handler, videoId, lang, lastError, transcriptData, pending, subTrack,
                   aborted, delays, failures, directCalls, toolCalls, netCalls,
                   lastRaised, directResult, startedAfterAbort, abortedAt>>

\* the tail shared by the two ways an attempt fails: the catch of the loop
\* (route.ts:104-147) and, when it rethrows, the outer catch (route.ts:247-333)
CatchAttempt(error) ==
    /\ lastError' = error
    /\ lastRaised' = error
    /\ failures' = Append(failures, isBlockingError(error))
    /\ LET d == RetryDecision(error, attempt)
       IN  IF d.retry
           THEN /\ delays' = Append(delays, [ms |-> d.delay, kind |-> "backoff", after |-> attempt])
                /\ pc' = "backoff"
                /\ UNCHANGED response
           ELSE /\ response' = CatchResponse(error)
                /\ pc' = "done"
                /\ UNCHANGED delays

\* the tail shared by the two ways the loop is left (break, loop condition)
LeaveLoop(data) ==
    LET r == AfterLoop(data, lastError, videoId)
    IN  /\ pc' = r.next
        /\ response' = r.response
        /\ lastRaised' = IF r.raised # NoError THEN r.raised ELSE lastRaised
        /\ IF r.next = "pageFetch"
           THEN /\ directCalls' = directCalls + 1
                /\ netCalls' = netCalls + 1
                /\ startedAfterAbort' = (startedAfterAbort \/ aborted)
           ELSE UNCHANGED <<directCalls, netCalls, startedAfterAbort>>

\* route.ts:55-58, 83-103, 150-246  fetchTranscript resolves
LibFetchReturns ==
    /\ UNCHANGED call
    /\ handler = "library"
    /\ pc = "libFetch"
    /\ \E data \in LibResults :
        /\ transcriptData' = data
        /\ IF data.array
           THEN /\ LeaveLoop(data)
                /\ UNCHANGED <<lastError, failures, delays>>
           ELSE /\ CatchAttempt(InvalidFormatError(data.typeof))
                /\ UNCHANGED <<directCalls, netCalls, startedAfterAbort>>
    /\ UNCHANGED <<handler, videoId, lang, attempt, pending, subTrack, aborted, libCalls,
                   toolCalls, directResult, abortedAt>>

\* route.ts:59-68, 104-147  fetchTranscript rejects
LibFetchThrows ==
    /\ UNCHANGED call
    /\ handler = "library"
    /\ pc = "libFetch"
    /\ \E error \in LibErrors : CatchAttempt(error)
    /\ UNCHANGED <<handler, videoId, lang, attempt, transcriptData, pending, subTrack, aborted,
                   libCalls, directCalls, toolCalls, netCalls, directResult,
                   startedAfterAbort, abortedAt>>

\* route.ts:134-135, 142-143, 43-50  the backoff timer fires: continue, the
\* loop condition, then the delay that precedes every attempt but the first
BackoffElapsed ==
    /\ UNCHANGED call
    /\ handler = "library"
    /\ pc = "backoff"
    /\ attempt' = attempt + 1
    /\ IF attempt' <= maxRetries
       THEN /\ IF attempt' > 1
               THEN /\ delays' = Append(delays, [ms |-> preAttemptDelay(attempt'),
                                                 kind |-> "pre", after |-> attempt])
                    /\ pc' = "preDelay"
                    /\ UNCHANGED <<libCalls, startedAfterAbort>>
               ELSE /\ libCalls' = libCalls + 1
                    /\ pc' = "libFetch"
                    /\ startedAfterAbort' = (startedAfterAbort \/ aborted)
                    /\ UNCHANGED delays
            /\ UNCHANGED <<response, lastRaised, directCalls, netCalls>>
       ELSE /\ LeaveLoop(transcriptData)
            /\ UNCHANGED <<delays, libCalls>>
    /\ UNCHANGED <<handler, videoId, lang, lastError, transcriptData, pending, subTrack,
                   aborted, failures, toolCalls, directResult, abortedAt>>

\* route.ts:49-58  the pre-attempt timer fires: the next attempt starts
PreDelayElapsed ==
    /\ UNCHANGED call
    /\ handler = "library"
    /\ pc = "preDelay"
    /\ libCalls' = libCalls + 1
    /\ pc' = "libFetch"
    /\ startedAfterAbort' = (startedAfterAbort \/ aborted)
    /\ UNCHANGED <<handler, videoId, lang, attempt, lastError, transcriptData,
                   response, pending, subTrack, aborted, delays, failures, directCalls,
                   toolCalls, netCalls, lastRaised, directResult, abortedAt>>

\* route.ts:354-445 and, when it throws, 188-210  fetch(watchUrl) settles
PageFetchDone ==
    /\ UNCHANGED call
    /\ handler = "library"
    /\ pc = "pageFetch"
    /\ \E r \in PageResults :
        LET o == PageOutcome(r, lang)
        IN  IF o.ok
            THEN /\ pending' = o.url
                 /\ netCalls' = netCalls + 1
                 /\ pc' = "trackFetch"
                 /\ startedAfterAbort' = (startedAfterAbort \/ aborted)
                 /\ UNCHANGED <<response, lastRaised>>
            ELSE /\ lastRaised' = o.error
                 /\ response' = FallbackFailedResponse
                 /\ pc' = "done"
                 /\ UNCHANGED <<pending, netCalls, startedAfterAbort>>
    /\ UNCHANGED <<handler, videoId, lang, attempt, lastError, transcriptData,
                   subTrack, aborted, delays, failures, libCalls, directCalls,
                   toolCalls, directResult, abortedAt>>

\* route.ts:447-481, 180-246  fetch(baseUrl) settles: the document is
\* parsed, and GET answers with the segments or with the fallback's 404
TrackFetchDone ==
    /\ UNCHANGED call
    /\ handler = "library"
    /\ pc = "trackFetch"
    /\ \E r \in TrackResults :
        LET o == TrackOutcome(r)
        IN  IF ~o.ok
            THEN /\ lastRaised' = o.error
                 /\ response' = FallbackFailedResponse
                 /\ UNCHANGED <<transcriptData, directResult>>
            ELSE /\ directResult' = [returned |-> TRUE, items |-> o.items]
                 /\ IF Len(o.items) > 0
                    THEN /\ transcriptData' = ArrayValue(o.items)
                         /\ response' = SuccessResponse(videoId, o.items)
                         /\ UNCHANGED lastRaised
                    ELSE /\ lastRaised' = FallbackEmptyError
                         /\ response' = FallbackFailedResponse
                         /\ UNCHANGED transcriptData
    /\ pc' = "done"
    /\ UNCHANGED <<handler, videoId, lang, attempt, lastError, pending, subTrack, aborted,
                   delays, failures, libCalls, directCalls, toolCalls, netCalls,
                   startedAfterAbort, abortedAt>>

----------------------------------------------------------------------------
(* GET of part_002: the strategy backed by the external tool *)

\* part_002:16-30  the two validation checks: which one rejects, or "ok"
ValidateVideoIdTool(id) ==
    IF Falsy(id) THEN "required"
    ELSE IF Len(id.s) # 11 THEN "invalid"
    ELSE "ok"

RECURSIVE Lookup(_, _)
\* obj?.[key]: the value of the key, when the object has it
Lookup(entries, l) ==
    IF entries = <<>> THEN [found |-> FALSE, tracks |-> <<>>]
    ELSE IF Head(entries).lang = l THEN [found |-> TRUE, tracks |-> Head(entries).tracks]
    ELSE Lookup(Tail(entries), l)

RECURSIVE Override(_, _)
\* the entries of a, each with the value b gives its key when b has the key
Override(a, b) ==
    IF a = <<>> THEN <<>>
    ELSE LET e == Head(a)
             o == Lookup(b, e.lang)
         IN  <<LangEntry(e.lang, IF o.found THEN o.tracks ELSE e.tracks)>>
                 \o Override(Tail(a), b)

RECURSIVE Without(_, _)
\* the entries of b whose key a does not have
Without(b, a) ==
    IF b = <<>> THEN <<>>
    ELSE (IF Lookup(a, Head(b).lang).found THEN <<>> ELSE <<Head(b)>>)
             \o Without(Tail(b), a)

\* part_002:57  { ...output.subtitles, ...output.automatic_captions }
Spread(a, b) == Override(a, b) \o Without(b, a)

RECURSIVE FindPrefix(_, _)
\* part_002:58-62  the first key that starts with lang
FindPrefix(entries, l) ==
    IF entries = <<>> THEN [found |-> FALSE, tracks |-> <<>>]
    ELSE IF StartsWith(Head(entries).lang, l)
    THEN [found |-> TRUE, tracks |-> Head(entries).tracks]
    ELSE FindPrefix(Tail(entries), l)

\* a selection by prefix alone
SelectSubtitlesByPrefix(output, l) ==
    FindPrefix(Spread(output.subtitles, output.automatic_captions), l)

\* part_002:53-63  let subtitles
SelectSubtitles(output, l) ==
    LET s1 == Lookup(output.subtitles, l)
        s2 == Lookup(output.automatic_captions, l)
    IN  IF s1.found THEN s1
        ELSE IF s2.found THEN s2
        ELSE FindPrefix(Spread(output.subtitles, output.automatic_captions), l)

RECURSIVE FindExt(_, _)
\* subtitles.find(s => s.ext === ext)
FindExt(tracks, ext) ==
    IF tracks = <<>> THEN [found |-> FALSE, track |-> NoSubTrack]
    ELSE IF Head(tracks).ext = ext THEN [found |-> TRUE, track |-> Head(tracks)]
    ELSE FindExt(Tail(tracks), ext)

\* part_002:77  const subTrack
SelectSubTrack(tracks) ==
    IF FindExt(tracks, "json3").found THEN FindExt(tracks, "json3")
    ELSE IF FindExt(tracks, "vtt").found THEN FindExt(tracks, "vtt")
    ELSE IF tracks # <<>> THEN [found |-> TRUE, track |-> tracks[1]]
    ELSE [found |-> FALSE, track |-> NoSubTrack]

\* part_002:140-147  the response of the catch
ToolCatchResponse == ErrorResponse(500, "Failed to fetch transcript")

\* part_002:130-138  the success response
ToolSuccessResponse(id, transcript) ==
    [status |-> 200, error |-> "", videoId |-> id,
     transcript |-> transcript, totalItems |-> Len(transcript)]

\* part_002:10-50  entry, validation, the call of the tool
StartTool ==
    /\ UNCHANGED call
    /\ handler = "ytdlp"
    /\ pc = "start"
    /\ LET v == ValidateVideoIdTool(videoId)
       IN  IF v = "required"
           THEN /\ response' = ErrorResponse(400, "Video ID is required")
                /\ pc' = "done"
                /\ UNCHANGED toolCalls
           ELSE IF v = "invalid"
           THEN /\ response' = ErrorResponse(400, "Invalid YouTube video ID")
                /\ pc' = "done"
                /\ UNCHANGED toolCalls
           ELSE /\ toolCalls' = toolCalls + 1
                /\ pc' = "toolCall"
                /\ UNCHANGED response
    /\ UNCHANGED <<handler, videoId, lang, attempt, lastError, transcriptData,
                   pending, subTrack, aborted, delays, failures, libCalls,
                   directCalls, netCalls, lastRaised, directResult,
                   startedAfterAbort, abortedAt>>

\* part_002:40-50, 140-147  the tool fails
ToolThrows ==
    /\ UNCHANGED call
    /\ handler = "ytdlp"
    /\ pc = "toolCall"
    /\ lastRaised' = ToolFailed
    /\ response' = ToolCatchResponse
    /\ pc' = "done"
    /\ UNCHANGED <<handler, videoId, lang, attempt, lastError, transcriptData,
                   pending, subTrack, aborted, delays, failures, libCalls,
                   directCalls, toolCalls, netCalls, directResult,
                   startedAfterAbort, abortedAt>>

\* part_002:52-84  what the handler does with the tool's output: the answer
\* it returns at once, or the track whose URL it goes on to fetch
ToolOutcome(output, l) ==
    LET subtitles == SelectSubtitles(output, l)
        t == SelectSubTrack(subtitles.tracks)
    IN  IF ~subtitles.found
        THEN [subtitles |-> subtitles, subTrack |-> NoSubTrack, fetch |-> FALSE,
              response |-> ErrorResponse(404, "No transcript available for language")]
        ELSE IF ~t.found \/ ~t.track.url
        THEN [subtitles |-> subtitles, subTrack |-> t.track, fetch |-> FALSE,
              response |-> ErrorResponse(500, "Failed to find subtitle track URL")]
        ELSE [subtitles |-> subtitles, subTrack |-> t.track, fetch |-> TRUE,
              response |-> NoResponse]

\* part_002:52-88  the tool answers: language, track, fetch of its URL
ToolReturns ==
    /\ UNCHANGED call
    /\ handler = "ytdlp"
    /\ pc = "toolCall"
    /\ \E output \in ToolOutputs :
        LET o == ToolOutcome(output, lang)
        IN  IF ~o.fetch
            THEN /\ response' = o.response
                 /\ pc' = "done"
                 /\ subTrack' = IF o.subtitles.found THEN o.subTrack ELSE subTrack
                 /\ UNCHANGED <<netCalls, startedAfterAbort>>
            ELSE /\ subTrack' = o.subTrack
                 /\ netCalls' = netCalls + 1
                 /\ startedAfterAbort' = (startedAfterAbort \/ aborted)
                 /\ pc' = "subFetch"
                 /\ UNCHANGED response
    /\ UNCHANGED <<handler, videoId, lang, attempt, lastError, transcriptData,
                   pending, aborted, delays, failures, libCalls, directCalls,
                   toolCalls, lastRaised, directResult, abortedAt>>

\* part_002:88-147  fetch(subTrack.url) settles: the body is parsed by the
\* branch the track's ext selects.  A body that is no JSON makes
\* subResponse.json() throw; a track that is not json3 answers with text,
\* and one that is neither json3 nor vtt with a body that is not VTT.
SubFetchDone ==
    /\ UNCHANGED call
    /\ handler = "ytdlp"
    /\ pc = "subFetch"
    /\ \E r \in SubResults :
        /\ subTrack.ext # "json3" => r.kind # "json"
        /\ r.kind = "text" => (r.text = TtmlSample <=> subTrack.ext \notin {"json3", "vtt"})
        /\ IF r.kind = "throw"
           THEN /\ lastRaised' = FetchFailed
                /\ response' = ToolCatchResponse
           ELSE IF r.kind = "status"
           THEN /\ lastRaised' = NewError(<<"Failed", "to", "fetch", "subtitle", "content:",
                                            StatusWord(r.status)>>)
                /\ response' = ToolCatchResponse
           ELSE IF subTrack.ext = "json3"
           THEN IF r.kind = "json"
                THEN /\ response' = ToolSuccessResponse(videoId, parseJson3(r.json))
                     /\ UNCHANGED lastRaised
                ELSE /\ lastRaised' = MkError(<<"Syntax", "Error">>, <<"Unexpected", "token">>, 0)
                     /\ response' = ToolCatchResponse
           ELSE /\ response' = ToolSuccessResponse(videoId, parseVtt(r.text))
                /\ UNCHANGED lastRaised
    /\ pc' = "done"
    /\ UNCHANGED <<handler, videoId, lang, attempt, lastError, transcriptData,
                   pending, subTrack, aborted, delays, failures, libCalls,
                   directCalls, toolCalls, netCalls, directResult,
                   startedAfterAbort, abortedAt>>

Next ==
    \/ Start
    \/ LibFetchReturns
    \/ LibFetchThrows
    \/ BackoffElapsed
    \/ PreDelayElapsed
    \/ PageFetchDone
    \/ TrackFetchDone
    \/ StartTool
    \/ ToolThrows
    \/ ToolReturns
    \/ SubFetchDone
    \/ Abort

Spec == Init /\ [][Next]_vars

----------------------------------------------------------------------------
(* The parsers, the track selection and the SRT formatter applied on their *)
(* own: each action applies one function of the repository to an input of  *)
(* a bounded set and records the application in call; a behaviour is one   *)
(* application.                                                            *)

\* a timestamp as it is written, and the time it denotes in milliseconds
Stamp(s, ms) == [s |-> s, ms |-> ms]

T1000 == Stamp(<<"0", "0", ":", "0", "1", ".", "0", "0", "0">>, 1000)
T3500 == Stamp(<<"0", "0", ":", "0", "3", ".", "5", "0", "0">>, 3500)
T62 == Stamp(<<"0", "1", ":", "0", "2">>, 62000)
T65 == Stamp(<<"0", "1", ":", "0", "5", ".", "5">>, 65500)
TH2 == Stamp(<<"0", "1", ":", "0", "0", ":", "0", "2", ".", "0", "0", "0">>, 3602000)
TH4 == Stamp(<<"0", "1", ":", "0", "0", ":", "0", "4", ".", "2", "5", "0">>, 3604250)

CueSettings == <<" ", "a", "l", "i", "g", "n", ":", "s", "t", "a", "r", "t", " ", "p", "o", "s", "i", "t", "i", "o", "n", ":", "0", "%">>

\* a cue line: left timestamp, separator, right timestamp, cue settings
CueLine(left, sep, right, settings) ==
    [left |-> left, sep |-> sep, right |-> right, settings |-> settings,
     s |-> left.s \o sep \o right.s \o settings]

CueLines ==
    { CueLine(T1000, SpacedArrow, T3500, <<>>),
      CueLine(T62, SpacedArrow, T65, <<>>),
      CueLine(TH2, SpacedArrow, TH4, <<>>),
      CueLine(T3500, SpacedArrow, T1000, <<>>),
      CueLine(T1000, Arrow, T3500, <<>>),
      CueLine(T1000, SpacedArrow, T3500, CueSettings) }

\* the lines that follow a cue line
CueTexts ==
    { <<>>,
      <<Hello, <<"w", "o", "r", "l", "d">>>>,
      <<<<"N", "O", "T", "E", " ", "c">>, <<" ", "h", "i", " ">>, <<" ", " ">>>> }

VttBlock(cue, lines) == [cue |-> cue, lines |-> lines]

VttBlocks == { VttBlock(c, x) : c \in CueLines, x \in CueTexts }

RECURSIVE Lines(_)
\* the text of a sequence of lines, each ended by a line feed
Lines(ls) == IF ls = <<>> THEN <<>> ELSE Head(ls) \o <<"\n">> \o Lines(Tail(ls))

RECURSIVE Blocks(_)
\* the text of a sequence of blocks, each followed by an empty line
Blocks(bs) ==
    IF bs = <<>> THEN <<>>
    ELSE Lines(<<Head(bs).cue.s>> \o Head(bs).lines) \o <<"\n">> \o Blocks(Tail(bs))

\* a VTT document: an optional header, then the blocks
VttDoc(header, blocks) ==
    [header |-> header, blocks |-> blocks,
     text |-> (IF header THEN WebvttWord \o <<"\n", "\n">> ELSE <<>>) \o Blocks(blocks)]

\* the sequences over S of length 0..n
SeqsUpTo(S, n) == UNION { [1..k -> S] : k \in 0..n }

VttDocs == { VttDoc(h, bs) : h \in BOOLEAN, bs \in SeqsUpTo(VttBlocks, MaxCues) }

\* events of a json3 document; NaN stands for a field the event lacks
Events ==
    { Event(TRUE, <<Hello, <<"!">>>>, JsInt(0), JsInt(1500)),
      Event(FALSE, <<>>, JsInt(0), JsInt(10)),
      Event(TRUE, <<>>, JsInt(500), JsInt(10)),
      Event(TRUE, <<Hello>>, JsInt(2000), NaN),
      Event(TRUE, <<<<" ">>>>, JsInt(1000), JsInt(500)),
      Event(TRUE, <<<<"x">>, <<"y">>>>, JsInt(0 - 1000), JsInt(250)) }

Json3Docs ==
    { NoJson } \cup { [hasEvents |-> TRUE, events |-> es] : es \in SeqsUpTo(Events, MaxSegs) }

\* <text> elements of a transcript document
XmlCues ==
    { Cue("plain", <<"0">>, <<"1", ".", "5">>, <<"h", "i">>),
      Cue("plain", <<"1", ".", "5">>, <<"2">>, <<"a", " ", "&", "a", "m", "p", ";", " ", "b">>),
      Cue("plain", <<"2">>, <<"1">>, <<"&", "l", "t", ";", "b", "&", "g", "t", ";", " ", "&", "q", "u", "o", "t", ";", "q", "&", "q", "u", "o", "t", ";", " ", "&", "#", "3", "9", ";", "s", "&", "#", "3", "9", ";">>),
      Cue("plain", <<"3">>, <<"1">>, <<"&", "a", "m", "p", ";", "l", "t", ";">>),
      Cue("cdata", <<"4">>, <<"1">>, <<"x", " ", "&", "#", "6", "5", ";", " ", "y">>),
      Cue("plain", <<"5">>, <<"1">>, Nbsp),
      Cue("plain", <<"-", "1">>, <<"x">>, <<"n", "e", "g">>),
      Cue("loose", <<"0", ".", "5">>, <<"1">>, <<"l", "o">>) }

XmlInputs == SeqsUpTo(XmlCues, MaxCues)

\* transcripts handed to the formatter
SrtItems ==
    { Seg(<<"h", "i">>, Num(0), Num(1500)),
      Seg(<<"a", " ", "b">>, Num(61250), Num(2000)),
      Seg(<<"x">>, Num(3661001), Num(999)),
      Seg(<<"y">>, Num(359999500), Num(1000)),
      Seg(<<"z">>, Num(0 - 1500), Num(500)),
      Seg(<<"n">>, NaN, Num(500)) }

Transcripts == SeqsUpTo(SrtItems, MaxSegs)

\* outputs of the tool: up to two language keys in each of the two objects,
\* a subtitle key listing a vtt track and a caption key a json3 track
LangKeys == {En, EnUS, EnGB, Th}

KeyedLists(track) ==
    { s \in SeqsUpTo({ LangEntry(k, <<track>>) : k \in LangKeys }, 2) :
          \A i, j \in 1..Len(s) : i # j => s[i].lang # s[j].lang }

ToolOutputsKeyed ==
    { ToolOutput(s, a) : s \in KeyedLists(SubTrack("vtt", TRUE)),
                         a \in KeyedLists(SubTrack("json3", TRUE)) }

Application(fn, arg, result) == [fn |-> fn, arg |-> arg, result |-> result]

PureInit ==
    /\ handler = "none"
    /\ videoId = NoParam
    /\ lang = En
    /\ pc = "start"
    /\ attempt = 0
    /\ lastError = NoError
    /\ transcriptData = Undefined
    /\ response = NoResponse
    /\ pending = NoPending
    /\ subTrack = NoSubTrack
    /\ aborted = FALSE
    /\ delays = <<>>
    /\ failures = <<>>
    /\ libCalls = 0
    /\ directCalls = 0
    /\ toolCalls = 0
    /\ netCalls = 0
    /\ lastRaised = NoError
    /\ directResult = [returned |-> FALSE, items |-> <<>>]
    /\ startedAfterAbort = FALSE
    /\ abortedAt = ""
    /\ call = NoCall

\* part_002:110-127 applied to the text of a document
ApplyParseVtt ==
    /\ call = NoCall
    /\ \E d \in VttDocs : call' = Application("parseVtt", d, parseVtt(d.text))
    /\ UNCHANGED handlerVars

\* part_002:95-105 applied to a document
ApplyParseJson3 ==
    /\ call = NoCall
    /\ \E json \in Json3Docs : call' = Application("parseJson3", json, parseJson3(json))
    /\ UNCHANGED handlerVars

\* route.ts:489-569 applied to a document
ApplyParseTranscriptXml ==
    /\ call = NoCall
    /\ \E xml \in XmlInputs :
           call' = Application("parseTranscriptXml", xml, parseTranscriptXml(xml))
    /\ UNCHANGED handlerVars

\* route.ts:354-423 applied to an answer of the watch page and a language
ApplyPageOutcome ==
    /\ call = NoCall
    /\ \E r \in PageResults, l \in {En, Th, EnUS} :
           call' = Application("PageOutcome", [page |-> r, lang |-> l], PageOutcome(r, l))
    /\ UNCHANGED handlerVars

\* part_002:52-84 applied to an output of the tool and a language
ApplyToolOutcome ==
    /\ call = NoCall
    /\ \E output \in ToolOutputs \cup ToolOutputsKeyed, l \in {En, Th, EnUS} :
           call' = Application("ToolOutcome", [output |-> output, lang |-> l],
                               ToolOutcome(output, l))
    /\ UNCHANGED handlerVars

\* format.ts:14-22 applied to a transcript
ApplyFormatAsSRT ==
    /\ call = NoCall
    /\ \E t \in Transcripts : call' = Application("formatAsSRT", t, formatAsSRT(t))
    /\ UNCHANGED handlerVars

PureNext ==
    \/ ApplyParseVtt
    \/ ApplyParseJson3
    \/ ApplyParseTranscriptXml
    \/ ApplyPageOutcome
    \/ ApplyToolOutcome
    \/ ApplyFormatAsSRT

PureSpec == PureInit /\ [][PureNext]_vars

----------------------------------------------------------------------------
(* Properties *)

Done == pc = "done"
Library == handler = "library"

\* a videoId of exactly 11 characters of [A-Za-z0-9_-]
ValidVideoId(id) ==
    /\ id.present
    /\ Len(id.s) = 11
    /\ \A i \in 1..Len(id.s) : IsIdChar(id.s[i])

\* The signatures the error taxonomy lists as non-retryable
\* ('transcript is disabled', 'no transcript found', 'video not found').
HasNonRetryableSignature(error) ==
    LET m == ToLower(error.message)
    IN  \/ Includes(m, <<"transcript", "is", "disabled">>)
        \/ Includes(m, <<"no", "transcript", "found">>)
        \/ Includes(m, <<"video", "not", "found">>)

\* the request carries a well-formed videoId and is served by route.ts
ValidLibraryCall == Library /\ ValidVideoId(videoId)

\* the primary strategy ended with an empty array and the direct-page
\* strategy returned a list that is not empty
DirectReturnedSegments ==
    Library /\ Done /\ directResult.returned /\ Len(directResult.items) > 0

NaNAsZero(x) == IF x.nan THEN Num(0) ELSE x

C2_AtMostFiveAttempts ==
    /\ libCalls <= 5
    /\ attempt <= 5
    /\ Len(failures) <= 5
    /\ Library /\ pc # "start" => libCalls = attempt \/ (pc \in {"preDelay"} /\ libCalls = attempt - 1)
    /\ pc \in {"libFetch", "backoff", "preDelay"} => Len(failures) < 5
    /\ Len(failures) = 5 => Done

\* C2 witness: five attempts were made and all five failed
C2_Witness == libCalls = 5 /\ Len(failures) = 5 /\ Done

\* C3 (as stated): once an attempt has failed with a non-retryable error
\* ('transcript is disabled', 'no transcript found', 'video not found'),
\* the loop has ended: no backoff, no pre-attempt delay, no further attempt.
C3_NonRetryableEndsLoop ==
    ValidLibraryCall /\ HasNonRetryableSignature(lastError)
        => pc \notin {"backoff", "preDelay", "libFetch"}

\* C4 (as stated): an error is answered only after every strategy was
\* tried: when the library strategy was invoked and the call ends in an
\* error, the direct-page strategy was invoked too.
C4_ErrorOnlyAfterAllStrategies ==
    ValidLibraryCall /\ Done /\ libCalls > 0 /\ response.status # 200 => directCalls > 0

\* the library strategy failed with a blocking error on attempts 1 and 2
\* and answered a list that is not empty on attempt 3
RateLimitedTwiceThenOk ==
    /\ ValidLibraryCall /\ Done
    /\ failures = <<TRUE, TRUE>>
    /\ libCalls = 3
    /\ directCalls = 0
    /\ transcriptData.array /\ Len(transcriptData.items) > 0

\* C5 (as stated): in that call the response is a success and exactly two
\* suspensions were applied, one after attempt 1 and one after attempt 2,
\* each of at least 3 time units (3000 ms).
C5_ExactlyTwoDelays ==
    RateLimitedTwiceThenOk =>
        /\ response.status = 200
        /\ Len(delays) = 2
        /\ delays[1].after = 1
        /\ delays[2].after = 2
        /\ \A i \in 1..Len(delays) : delays[i].ms >= 3000

RECURSIVE SumAfter(_, _)
\* the total of the suspensions of ds applied after the failure of attempt k
SumAfter(ds, k) ==
    IF ds = <<>> THEN 0
    ELSE (IF Head(ds).after = k THEN Head(ds).ms ELSE 0) + SumAfter(Tail(ds), k)

BlockingBackoffTable == <<3000, 6000, 12000, 15000>>
OtherBackoffTable == <<1000, 2000, 4000, 5000>>

\* C6 (as stated): for k in 1..4, once attempt k+1 has started, the total
\* suspension since the failure of attempt k is 3, 6, 12, 15 time units
\* after a blocking error and 1, 2, 4, 5 after any other error.
C6_TotalSuspension ==
    \A k \in 1..4 :
        ValidLibraryCall /\ libCalls > k =>
            SumAfter(delays, k) =
                IF failures[k] THEN BlockingBackoffTable[k] ELSE OtherBackoffTable[k]

\* C7 (as stated): for a videoId that is missing or is not 11 characters of
\* the alphabet, no strategy is invoked and no network call is made, and
\* the call ends with status 400; in both handlers.
C7_InvalidIdNeverReachesStrategy ==
    ~ValidVideoId(videoId) =>
        /\ libCalls = 0 /\ directCalls = 0 /\ toolCalls = 0 /\ netCalls = 0
        /\ Done => response.status = 400

\* C8 (as stated): when the call ends in an error after an error was
\* raised, the status answered is the classification of the last error
\* raised in the call.
C8_LastErrorClassified ==
    ValidLibraryCall /\ Done /\ response.status # 200 /\ lastRaised # NoError
        => response.status = ClassifyStatus(lastRaised)

\* the direct-page strategy completed without error and yielded no segment
DirectReturnedEmpty ==
    Library /\ Done /\ directResult.returned /\ directResult.items = <<>>

\* C9 (as stated): an empty result of the last strategy (direct-page) ends
\* the call as a success with an empty transcript, and an empty result of
\* the library strategy never ends the call.
C9_EmptyLastStrategySucceeds ==
    /\ DirectReturnedEmpty /\ ValidVideoId(videoId)
           => response.status = 200 /\ response.transcript = <<>>
    /\ Library /\ transcriptData.array /\ transcriptData.items = <<>> => directCalls = 1

\* C9 (amended): an empty result never ends the call as a success.  An
\* empty array of the library strategy starts the direct-page strategy, and
\* when the direct-page strategy completes without error and yields no
\* segment the call ends with the 404 error; no 200 response of this
\* handler carries an empty transcript.
C9_EmptyNeverSucceeds ==
    /\ DirectReturnedEmpty => response.status = 404
    /\ Library /\ transcriptData.array /\ transcriptData.items = <<>> => directCalls = 1
    /\ Library /\ Done /\ response.status = 200 => response.transcript # <<>>

\* C9 witness: the direct-page strategy parsed a document into no segment
C9_Witness == DirectReturnedEmpty /\ response.status = 404 /\ directCalls = 1

\* C10 (as stated): once the caller's signal has fired during a backoff
\* delay or a network wait, no attempt and no network call is started, and
\* the call ends with the Cancelled outcome.
C10_CancelStopsCall ==
    aborted /\ ValidVideoId(videoId) =>
        /\ ~startedAfterAbort
        /\ Done => response.error = "Cancelled"


\* library attempts that have settled: each failure, and the array that
\* ended the loop
LibSettled == Len(failures) + (IF transcriptData.array THEN 1 ELSE 0)

\* strategy attempts in flight
LibInFlight == libCalls - LibSettled
DirectInFlight == directCalls - (IF directCalls > 0 /\ response # NoResponse THEN 1 ELSE 0)

\* C11: at most one strategy attempt is in flight at any time; attempt k+1
\* of the library strategy has started only after attempt k failed and a
\* suspension of positive length following that failure has elapsed; the
\* direct-page strategy has started only after the retry loop ended.
C11_StrictlySequential ==
    /\ LibInFlight \in {0, 1}
    /\ DirectInFlight \in {0, 1}
    /\ LibInFlight + DirectInFlight <= 1
    /\ LibInFlight = 1 <=> pc = "libFetch"
    /\ DirectInFlight = 1 <=> pc \in {"pageFetch", "trackFetch"}
    /\ pc \in {"backoff", "preDelay"} => libCalls = Len(failures)
    /\ \A i \in 1..Len(delays) : delays[i].ms > 0
    /\ \A k \in 1..4 :
           libCalls > k => Len(failures) >= k /\ SumAfter(delays, k) > 0
    /\ directCalls > 0 =>
           /\ directCalls = 1
           /\ LibInFlight = 0
           /\ transcriptData.array
           /\ pc \in {"pageFetch", "trackFetch", "done"}

\* C11 witness: two attempts failed, the third answered an empty array and
\* the direct-page strategy is now in flight
C11_Witness ==
    /\ Library /\ libCalls = 3 /\ Len(failures) = 2 /\ Len(delays) = 4
    /\ directCalls = 1 /\ pc = "trackFetch"

\* the statuses an error response carries
ErrorKinds == {400, 404, 429, 500}

IsSuccess(r) == r.status = 200 /\ r.error = ""
IsFailure(r) == r.status \in ErrorKinds /\ r.error # "" /\ r.transcript = <<>>

\* a step of a handler (every step but the firing of the caller's signal)
HandlerStep ==
    \/ Start \/ LibFetchReturns \/ LibFetchThrows \/ BackoffElapsed
    \/ PreDelayElapsed \/ PageFetchDone \/ TrackFetchDone
    \/ StartTool \/ ToolThrows \/ ToolReturns \/ SubFetchDone

\* C12: every call ends with exactly one outcome: a success or a failure of
\* exactly one kind (status 400, 404, 429 or 500).  A handler that has not
\* ended has answered nothing and can take a step (no error leaves it
\* without an answer), a handler that has ended has answered and takes no
\* further step, and an answer once given never changes.
C12_ExactlyOneOutcome ==
    /\ [](Done <=> response # NoResponse)
    /\ [](Done => (IsSuccess(response) /\ ~IsFailure(response))
                      \/ (IsFailure(response) /\ ~IsSuccess(response)))
    /\ [](Done <=> ~ENABLED HandlerStep)
    /\ [][response # NoResponse => response' = response]_vars

\* C12 witness: an error raised in the retry loop ended the call with the
\* rate-limit kind, and an error raised by the direct-page strategy can end
\* it too
C12_Witness ==
    /\ Library /\ Done /\ Len(failures) = 5 /\ lastRaised # NoError
    /\ response.status = 429 /\ IsFailure(response)

\* a function was applied on its own
Applied(fn) == call.fn = fn

\* x is a number and x >= 0
NonNegative(x) == ~x.nan /\ x.v >= 0

\* C13 (as stated, for the VTT-like parser the claim singles out): every
\* segment the parser emits has offset >= 0 and duration >= 0; a cue whose
\* right timestamp is smaller than its left one, or whose right side cannot
\* be read, gets duration 0.
C13_NonNegativeTimes ==
    Applied("parseVtt") =>
        \A i \in 1..Len(call.result) :
            /\ NonNegative(call.result[i].offset)
            /\ NonNegative(call.result[i].duration)
            /\ (i <= Len(call.arg.blocks)
                /\ call.arg.blocks[i].cue.right.ms < call.arg.blocks[i].cue.left.ms)
                   => call.result[i].duration = Num(0)

\* the offsets of a transcript are numbers in non-decreasing order
OrderedByOffset(transcript) ==
    \A i \in 1..Len(transcript) :
        /\ ~transcript[i].offset.nan
        /\ i > 1 => transcript[i - 1].offset.v <= transcript[i].offset.v

\* C14 (as stated): the segments of every successful response are ordered
\* by non-decreasing offset, whatever payload the strategy was answered.
C14_ResponseOrdered ==
    Done /\ ValidVideoId(videoId) /\ response.status = 200
        => OrderedByOffset(response.transcript)

\* one of the three parsers was applied
ParserApplied ==
    Applied("parseVtt") \/ Applied("parseJson3") \/ Applied("parseTranscriptXml")

\* C15 (as stated): every segment emitted by any of the three parsers has
\* text that is not empty after trimming white space (an event or cue with
\* empty text is dropped).
C15_NoEmptyText ==
    ParserApplied =>
        \A i \in 1..Len(call.result) : Trim(call.result[i].text) # <<>>

\* the events of a document whose fragment list is present and not empty
CaptionEvents(json) == SelectSeq(json.events, LAMBDA e : e.hasSegs /\ Len(e.segs) >= 1)

RECURSIVE Concat(_)
\* the fragments one after the other, with nothing between them
Concat(fragments) ==
    IF fragments = <<>> THEN <<>>
    ELSE Concat(SubSeq(fragments, 1, Len(fragments) - 1)) \o fragments[Len(fragments)]

\* a time in milliseconds, in seconds (both are kept in thousandths)
MsToSeconds(ms) == Num(ms.v \div 1000)

\* C16: for a json3 document with an events list the output has exactly one
\* segment per event whose fragment list is not empty, in the order of the
\* events; its text is the fragments concatenated with no separator, its
\* offset and duration are the event's start and duration in milliseconds
\* divided by 1000, and a missing duration gives 0.
C16_OneSegmentPerCaptionEvent ==
    Applied("parseJson3") /\ call.arg.hasEvents =>
        LET es == CaptionEvents(call.arg)
        IN  /\ Len(call.result) = Len(es)
            /\ \A i \in 1..Len(es) :
                /\ call.result[i].text = Concat(es[i].segs)
                /\ call.result[i].offset = MsToSeconds(es[i].tStartMs)
                /\ call.result[i].duration =
                       IF es[i].dDurationMs.nan THEN Num(0)
                       ELSE MsToSeconds(es[i].dDurationMs)

\* C16 witness: of two events the one with an empty fragment list was
\* skipped and the other, which has two fragments and a duration, was kept;
\* and an event without a duration was answered with duration 0
C16_Witness ==
    /\ Applied("parseJson3")
    /\ Len(call.arg.events) = 2
    /\ call.arg.events[1].hasSegs /\ call.arg.events[1].segs = <<>>
    /\ call.arg.events[2].dDurationMs.nan
    /\ Len(call.result) = 1
    /\ call.result[1].text = Hello
    /\ call.result[1].offset = Num(2000)
    /\ call.result[1].duration = Num(0)

\* the five standard entities and the character each stands for
StandardEntities ==
    { [raw |-> <<"&", "a", "m", "p", ";">>, char |-> "&"],
      [raw |-> <<"&", "l", "t", ";">>, char |-> "<"],
      [raw |-> <<"&", "g", "t", ";">>, char |-> ">"],
      [raw |-> <<"&", "q", "u", "o", "t", ";">>, char |-> "\""],
      [raw |-> <<"&", "#", "3", "9", ";">>, char |-> "'"] }

\* C17 (as stated): when the text of a cue contains one of the five
\* standard entities, the text of the segment emitted for it contains the
\* character the entity stands for and none of the five raw entities.
\* (Stated for the documents all of whose cues are emitted, where segment i
\* is the segment of cue i.)
C17_EntitiesDecoded ==
    Applied("parseTranscriptXml") /\ Len(call.result) = Len(call.arg) =>
        \A i \in 1..Len(call.arg) :
            \A e \in StandardEntities :
                Includes(call.arg[i].body, e.raw) =>
                    /\ Includes(call.result[i].text, <<e.char>>)
                    /\ \A f \in StandardEntities : ~Includes(call.result[i].text, f.raw)

\* a cue line that is two timestamps with " --> " between them and nothing
\* after the right one
TwoTimestamps(cue) == cue.sep = SpacedArrow /\ cue.settings = <<>>

\* a line that counts as text of a cue
IsTextLine(line) ==
    /\ Trim(line) # <<>>
    /\ ~StartsWith(line, NoteWord)
    /\ ~StartsWith(line, WebvttWord)

RECURSIVE SpaceJoined(_)
\* the lines, trimmed, with one space between two of them
SpaceJoined(ls) ==
    IF ls = <<>> THEN <<>>
    ELSE IF Len(ls) = 1 THEN Trim(ls[1])
    ELSE SpaceJoined(SubSeq(ls, 1, Len(ls) - 1)) \o <<" ">> \o Trim(ls[Len(ls)])

\* the text the lines after a cue line give the cue
CueText(ls) == SpaceJoined(SelectSeq(ls, IsTextLine))

SampleCueLine == <<"0", "0", ":", "0", "1", ".", "0", "0", "0", " ", "-", "-", ">", " ", "0", "0", ":", "0", "3", ".", "5", "0", "0">>

NoTrackError == NewError(<<"No", "caption", "track", "found", "for", "language">>)

HasExactMatch(tracks, l) == \E i \in 1..Len(tracks) : tracks[i].languageCode = l
HasPrefixMatch(tracks, l) == \E i \in 1..Len(tracks) : StartsWith(tracks[i].languageCode, l)

\* C19 (as stated): when the page carries a descriptor list, the
\* direct-page strategy fails for lack of a track exactly when no track's
\* code equals the requested code and no track's code has it as a prefix;
\* a request for 'en' resolves to a track 'en-US'.
C19_ExactThenPrefixMatch ==
    Applied("PageOutcome") /\ call.arg.page.kind = "html" /\ call.arg.page.json = "ok" =>
        LET tracks == call.arg.page.tracks
            l == call.arg.lang
        IN  (call.result = Thrown(NoTrackError))
                <=> ~(HasExactMatch(tracks, l) \/ HasPrefixMatch(tracks, l))

\* n < 100 in two digits, n < 1000 in three
TwoDigits(n) == <<DigitChar(n \div 10), DigitChar(n % 10)>>
ThreeDigits(n) == <<DigitChar(n \div 100), DigitChar((n \div 10) % 10), DigitChar(n % 10)>>

\* a time of t >= 0 milliseconds as HH:MM:SS,mmm, every field by floor
\* division of the total; hours from 100 on (below 1000) take three digits
StampOf(t) ==
    LET h == t \div 3600000
        m == (t \div 60000) % 60
        s == (t \div 1000) % 60
        f == t % 1000
    IN  (IF h < 100 THEN TwoDigits(h) ELSE ThreeDigits(h)) \o <<":">>
            \o TwoDigits(m) \o <<":">> \o TwoDigits(s) \o <<",">> \o ThreeDigits(f)

\* block i of a transcript: index, times, text, each on a line of its own
BlockOf(t, i) ==
    <<DigitChar(i)>> \o <<"\n">>
        \o StampOf(t[i].offset.v) \o <<" ", "-", "-", ">", " ">>
        \o StampOf(t[i].offset.v + t[i].duration.v) \o <<"\n">>
        \o t[i].text \o <<"\n">>

RECURSIVE BlocksUpTo(_, _)
\* blocks 1..n, an empty line before every block but the first
BlocksUpTo(t, n) ==
    IF n = 0 THEN <<>>
    ELSE BlocksUpTo(t, n - 1) \o (IF n > 1 THEN <<"\n">> ELSE <<>>) \o BlockOf(t, n)

\* every offset and duration of the transcript is a number >= 0
NonNegativeTimes(t) ==
    \A i \in 1..Len(t) : NonNegative(t[i].offset) /\ NonNegative(t[i].duration)

NumericField(f) ==
    LET ni == CountDigits(f, 1)
        dot == ni + 1 <= Len(f) /\ f[ni + 1] = "."
        nf == IF dot THEN CountDigits(f, ni + 2) ELSE 0
    IN  /\ ni >= 1
        /\ IF dot THEN nf >= 1 /\ ni + 1 + nf = Len(f) ELSE ni = Len(f)

\* a timestamp of two or three numeric fields with colons between them
WellFormedStamp(s) ==
    LET parts == Split(Trim(s), <<":">>)
    IN  /\ Len(parts) \in {2, 3}
        /\ \A i \in 1..Len(parts) : NumericField(parts[i])

\* a cue line with a side that is no timestamp, or without a right side
MalformedCue(line) ==
    LET sides == Split(line, SpacedArrow)
    IN  \/ Len(sides) < 2
        \/ ~WellFormedStamp(sides[1])
        \/ ~WellFormedStamp(sides[2])

\* the blocks of a document whose cue line is well formed
GoodBlocks(doc) == SelectSeq(doc.blocks, LAMBDA b : ~MalformedCue(b.cue.s))

\* C21 (as stated): a cue line with a malformed timestamp gives no segment
\* and the text lines after it are not emitted; the other cues of the
\* document are emitted, one segment each, with their text.
C21_MalformedCueDropped ==
    Applied("parseVtt") =>
        LET good == GoodBlocks(call.arg)
        IN  /\ Len(call.result) = Len(good)
            /\ \A i \in 1..Len(good) :
                   i <= Len(call.result) =>
                       /\ call.result[i].offset = Num(good[i].cue.left.ms)
                       /\ call.result[i].text = CueText(good[i].lines)

\* the number of the first pattern, in the order plain, escaped literal,
\* loose, that matches an element of the document; 0 when none does
FirstPattern(doc) ==
    IF \E i \in 1..Len(doc) : Pattern1Matches(doc[i]) THEN 1
    ELSE IF \E i \in 1..Len(doc) : Pattern2Matches(doc[i]) THEN 2
    ELSE IF \E i \in 1..Len(doc) : Pattern3Matches(doc[i]) THEN 3
    ELSE 0

\* C22: the output of the cue-XML parser is built from the matches of the
\* first pattern, in the order plain, escaped literal, loose, that matches
\* at least once, and from nothing else: elements that only a later pattern
\* matches give no segment.
C22_FirstMatchingPattern ==
    Applied("parseTranscriptXml") =>
        LET k == FirstPattern(call.arg)
        IN  /\ k = 0 => call.result = <<>>
            /\ k > 0 => call.result = SegmentsOfMatches(SelectElems(call.arg, k))
            /\ k = 1 => Len(call.result)
                            <= Cardinality({ i \in 1..Len(call.arg) : call.arg[i].form = "plain" })
            /\ k = 2 => \A i \in 1..Len(call.arg) : call.arg[i].form # "plain"

\* C22 witness: a document of an escaped-literal element followed by a plain
\* one gives the segment of the plain one alone
C22_Witness ==
    /\ Applied("parseTranscriptXml")
    /\ Len(call.arg) = 2
    /\ call.arg[1].form = "cdata"
    /\ call.arg[2] = Cue("plain", <<"0">>, <<"1", ".", "5">>, <<"h", "i">>)
    /\ call.result = <<Seg(<<"h", "i">>, Num(0), Num(1500))>>

\* the external-tool handler was called with an id that passes validation
ValidToolCall == handler = "ytdlp" /\ ValidateVideoIdTool(videoId) = "ok"

\* C23 (as stated): the track the external-tool strategy fetches is the
\* json3 track of the chosen language when there is one and otherwise its
\* vtt track, and a transcript is only ever built by the parser of the
\* track's own format: no content of another format reaches a parser.  In
\* this handler a 200 answer is built from a parser's result alone, by the
\* segment-JSON parser when the track's ext is json3 and by the VTT-like
\* parser otherwise.
C23_ParserMatchesFormat ==
    ValidToolCall /\ ValidVideoId(videoId) /\ Done /\ response.status = 200
        => subTrack.ext \in {"json3", "vtt"}

\* the language keys of an object of the tool's output, in listing order
KeysOf(entries) == [i \in 1..Len(entries) |-> entries[i].lang]

\* the keys of { ...subtitles, ...automatic_captions }: those of subtitles,
\* then those of automatic_captions that subtitles lacks
ListingOrder(output) ==
    KeysOf(output.subtitles)
        \o SelectSeq(KeysOf(output.automatic_captions),
                     LAMBDA k : \A i \in 1..Len(output.subtitles) : output.subtitles[i].lang # k)

\* the track lists either object keys by k
ListsKeyedBy(output, k) ==
    { output.subtitles[i].tracks : i \in { j \in 1..Len(output.subtitles) : output.subtitles[j].lang = k } }
    \cup { output.automatic_captions[i].tracks :
               i \in { j \in 1..Len(output.automatic_captions) : output.automatic_captions[j].lang = k } }

NoCaptionsForLanguage == ErrorResponse(404, "No transcript available for language")

\* C24: the external-tool strategy takes the track list keyed exactly by the
\* requested language when subtitles or automatic captions have that key,
\* whatever keys are listed before it; otherwise the list of the first key,
\* in listing order, that starts with the requested code; and when no key
\* starts with it the answer is 404 NoCaptionsForLanguage and no track is
\* fetched.
C24_ExactThenFirstPrefix ==
    Applied("ToolOutcome") =>
        LET output == call.arg.output
            l == call.arg.lang
            r == call.result
            keys == ListingOrder(output)
            pre == { i \in 1..Len(keys) : StartsWith(keys[i], l) }
        IN  /\ ListsKeyedBy(output, l) # {} =>
                /\ r.subtitles.found
                /\ r.subtitles.tracks \in ListsKeyedBy(output, l)
            /\ ListsKeyedBy(output, l) = {} /\ pre # {} =>
                LET first == CHOOSE i \in pre : \A j \in pre : i <= j
                IN  /\ r.subtitles.found
                    /\ r.subtitles.tracks \in ListsKeyedBy(output, keys[first])
            /\ pre = {} =>
                /\ ~r.subtitles.found
                /\ r.response = NoCaptionsForLanguage
                /\ ~r.fetch
                /\ r.subTrack = NoSubTrack
            /\ r.fetch => r.subTrack \in { r.subtitles.tracks[i] : i \in 1..Len(r.subtitles.tracks) }

\* C24 witness: en is asked for, subtitles list en-US and automatic captions
\* list en-GB and then en: the json3 track of the key en is the one to fetch
C24_Witness ==
    /\ Applied("ToolOutcome")
    /\ call.arg.lang = En
    /\ KeysOf(call.arg.output.subtitles) = <<EnUS>>
    /\ KeysOf(call.arg.output.automatic_captions) = <<EnGB, En>>
    /\ call.result.fetch
    /\ call.result.subTrack = SubTrack("json3", TRUE)

LoopEndedByError == Done /\ Len(failures) = maxRetries

\* C26 (as stated): the error that ends the retry loop was treated as
\* blocking by the loop if and only if the caller is answered RateLimited
\* (HTTP 429).
C26_LoopAgreesWithOutcome ==
    ValidLibraryCall /\ LoopEndedByError
        => (failures[maxRetries] <=> response.status = 429)

\* the backoff delays applied so far, in order
BackoffDelays == SelectSeq(delays, LAMBDA d : d.kind = "backoff")

\* C27: a backoff delay follows each of the failed attempts 1 to 4 and no
\* delay of any kind follows the failure of attempt 5; when attempt 5 fails
\* the call is over at once, and the error that leaves the loop and is
\* classified for the caller is the error of attempt 5.
C27_NoBackoffAfterLastAttempt ==
    ValidLibraryCall =>
        /\ \A i \in 1..Len(delays) : delays[i].after \in 1..4
        /\ Len(BackoffDelays) = Min(Len(failures), 4)
        /\ \A i \in 1..Len(BackoffDelays) : BackoffDelays[i].after = i
        /\ Len(failures) = 5 =>
               /\ Done
               /\ attempt = 5
               /\ lastRaised = lastError
               /\ failures[5] = isBlockingError(lastRaised)
               /\ response = CatchResponse(lastRaised)

\* C27 witness: five attempts failed, the fourth with a blocking error and
\* the fifth with another one, four backoff delays were applied, and the
\* caller is answered for the fifth error
C27_Witness ==
    /\ ValidLibraryCall /\ Done
    /\ failures = <<FALSE, FALSE, FALSE, TRUE, FALSE>>
    /\ Len(BackoffDelays) = 4
    /\ BackoffDelays[4].ms = 15000
    /\ lastRaised.message = <<"video", "not", "found">>
    /\ response.status = 400

\* the library strategy ended with an empty array and the direct-page
\* strategy ended without a segment: it failed, or it parsed none
BothStrategiesEmpty ==
    /\ Library /\ Done
    /\ directCalls = 1
    /\ ~(directResult.returned /\ Len(directResult.items) > 0)

\* C28: in the library + direct-page handler a 200 response carries a
\* transcript that is not empty, one item per segment of the strategy that
\* produced it, totalItems equal to the transcript's length and the videoId
\* of the request; when both strategies yield no segment the response is
\* the 404 error with no transcript.
C28_SuccessCarriesTranscript ==
    /\ Library /\ Done /\ response.status = 200 =>
           /\ Len(response.transcript) >= 1
           /\ response.totalItems = Len(response.transcript)
           /\ response.videoId = videoId
           /\ response.error = ""
           /\ transcriptData.array
           /\ Len(response.transcript) = Len(transcriptData.items)
    /\ BothStrategiesEmpty =>
           /\ response.status = 404
           /\ response.transcript = <<>>

\* C28 witness: the second attempt of the library answered MaxSegs segments
\* and the call ended with them, the fallback not being used
C28_Witness ==
    /\ ValidLibraryCall /\ Done
    /\ libCalls = 2 /\ directCalls = 0
    /\ response.status = 200
    /\ response.totalItems = MaxSegs
    /\ response.videoId = videoId
====
